---- MODULE Spec2Model ----
(***************************************************************************)
(* owinec - Open Windows Event Collector (src/src/owinec.py).              *)
(*                                                                         *)
(* The model follows one handler thread per accepted connection            *)
(* (ThreadingHTTPServer): a connection is accepted, requests arrive on it  *)
(* and SoapHandler / WSManHandler answer them.  do_GET, do_PUT and do_POST *)
(* are translated statement by statement.  The only process-wide shared    *)
(* state is the event log file written by event_logger (the sink); the     *)
(* loop of do_events is therefore split at each event_logger.info call, so *)
(* that handler threads interleave there.                                  *)
(*                                                                         *)
(* The module wsman (envelope parsing and serialisation) is imported by    *)
(* owinec.py but is not part of the source at hand; its operators are      *)
(* modelled from the data model of the specification and say so.           *)
(***************************************************************************)
EXTENDS Integers, Sequences, FiniteSets, TLC

(***************************************************************************)
(* Bounds of the model.                                                    *)
(***************************************************************************)
NumConns == 2        \* handler threads (connection slots) that may run at once
MaxEvents == 2       \* longest Events batch drawn as an input
MaxFaults == 1       \* longest list of Fault entries drawn as an input
MaxSink == 3         \* requests are admitted while the event log holds fewer lines

Conns == 1..NumConns

(***************************************************************************)
(* Program constants.                                                      *)
(***************************************************************************)
OK == 200
UNAUTHORIZED == 401
METHOD_NOT_ALLOWED == 405
LENGTH_REQUIRED == 411
NOT_IMPLEMENTED == 501
CODE_ACCESS_DENIED == 5004
CODE_RPC_CANCELLED == 1818

MUTUAL == "http://schemas.dmtf.org/wbem/wsman/1/wsman/secprofile/https/mutual"
BODY_405 == "Method Not Allowed"
BODY_401 == "Unauthorized - Unsupported authentication protocol - Use https instead"
BODY_411 == "Length Required - This request requires a payload"
BODY_501 == "Not Implemented"
SOAP_CONTENT_TYPE == "application/soap+xml;charset=UTF-8"
TIP == "Tip: Verify that 'NT Authority\\Network Service' is a member of the 'Event Log Readers' group on the source computer."

\* Python's None, and an absent HTTP header.
None == "None"
Absent == "absent"

(***************************************************************************)
(* wsman: action and resource URIs (constants of the missing module).      *)
(***************************************************************************)
ACTION_END == "wsman.ACTION_END"
ACTION_ENUMERATE == "wsman.ACTION_ENUMERATE"
ACTION_HEARTBEAT == "wsman.ACTION_HEARTBEAT"
ACTION_END_SUBSCRIPTION == "wsman.ACTION_END_SUBSCRIPTION"
ACTION_EVENTS == "wsman.ACTION_EVENTS"
ACTION_OTHER == "http://schemas.xmlsoap.org/ws/2004/08/eventing/Renew"
RESOURCE_URI_FULL_DUPLEX == "wsman.RESOURCE_URI_FULL_DUPLEX"
RESOURCE_URI_SUBSCRIPTION == "wsman.RESOURCE_URI_SUBSCRIPTION"
RESOURCE_URI_OTHER == "http://schemas.microsoft.com/wbem/wsman/1/windows/shell/cmd"

Actions ==
    {ACTION_END, ACTION_ENUMERATE, ACTION_HEARTBEAT, ACTION_END_SUBSCRIPTION,
     ACTION_EVENTS, ACTION_OTHER}
ResourceURIs ==
    {None, RESOURCE_URI_FULL_DUPLEX, RESOURCE_URI_SUBSCRIPTION, RESOURCE_URI_OTHER}

(***************************************************************************)
(* Small helpers on sequences.                                             *)
(***************************************************************************)
Range(s) == {s[i] : i \in 1..Len(s)}
SeqsUpTo(S, n) == UNION {[1..k -> S] : k \in 0..n}
IndexOf(s, P(_)) == IF \E i \in 1..Len(s) : P(s[i])
                    THEN CHOOSE i \in 1..Len(s) : P(s[i]) /\ \A j \in 1..(i-1) : ~P(s[j])
                    ELSE 0

(***************************************************************************)
(* Header values as Python strings: tuples of one-character strings, so    *)
(* that split, strip, startswith and slicing are computed as the code      *)
(* computes them.  An absent header is NoHeader (headers[...] is None).    *)
(***************************************************************************)
NoHeader == <<Absent>>
NoneStr == <<None>>
EmptyStr == <<>>
MEDIA == <<"s", "+", "x">>
CHARSET_EQ == <<"c", "h", "a", "r", "s", "e", "t", "=">>
UTF_16 == <<"U", "T", "F", "-", "1", "6">>
utf_16 == <<"u", "t", "f", "-", "1", "6">>
UTF_8 == <<"U", "T", "F", "-", "8">>

\* str.split(sep): the pieces of s between the occurrences of the character sep.
RECURSIVE Split(_, _)
Split(s, sep) ==
    LET at == IndexOf(s, LAMBDA ch : ch = sep)
    IN  IF at = 0 THEN <<s>>
        ELSE <<SubSeq(s, 1, at - 1)>> \o Split(SubSeq(s, at + 1, Len(s)), sep)

\* str.strip(): s without its leading and trailing blanks.
RECURSIVE Strip(_)
Strip(s) ==
    IF s = <<>> THEN s
    ELSE IF Head(s) = " " THEN Strip(Tail(s))
    ELSE IF s[Len(s)] = " " THEN Strip(SubSeq(s, 1, Len(s) - 1))
    ELSE s

\* str.startswith(prefix)
StartsWith(s, prefix) ==
    /\ Len(s) >= Len(prefix)
    /\ SubSeq(s, 1, Len(prefix)) = prefix

\* do_POST: content_type = (headers['Content-Type'] or '').split(';') and the
\* charset taken from its second piece; NoneStr when none is found.
ParseCharset(header) ==
    LET content_type == Split(IF header = NoHeader THEN EmptyStr ELSE header, ";")
    IN  IF Len(content_type) > 1 /\ StartsWith(Strip(content_type[2]), CHARSET_EQ)
        THEN SubSeq(Strip(content_type[2]), 9, Len(Strip(content_type[2])))
        ELSE NoneStr

\* do_POST: the codec the payload is decoded with.
Codec_AnyCase(charset) == IF charset \in {UTF_16, utf_16} THEN "utf16" ELSE "utf8"
Codec(charset) == IF charset = UTF_16 THEN "utf16" ELSE "utf8"

\* do_POST: int(headers['Content-Length']) if the header is present, else 0.
\* The result is [ok, v]; ok is FALSE where int() raises ValueError.
ParseContentLength_Unguarded(header) ==
    CASE header = "0" -> [ok |-> TRUE, v |-> 0]
      [] header = "52" -> [ok |-> TRUE, v |-> 52]
      [] OTHER -> [ok |-> FALSE, v |-> 0]
ParseContentLength(header) ==
    CASE header = Absent -> [ok |-> TRUE, v |-> 0]
      [] header = "0" -> [ok |-> TRUE, v |-> 0]
      [] header = "52" -> [ok |-> TRUE, v |-> 52]
      [] OTHER -> [ok |-> FALSE, v |-> 0]

(***************************************************************************)
(* Request inputs.                                                         *)
(***************************************************************************)
Paths == {"/", "/wsman/SubscriptionManager/WEC"}
AuthHeaders == {Absent, "Basic dXNlcjpwdw=="}
ContentLengths == {Absent, "0", "52", "abc"}
ContentTypes ==
    {NoHeader,
     MEDIA \o <<";", " ">> \o CHARSET_EQ \o UTF_16,
     MEDIA \o <<";">> \o CHARSET_EQ \o utf_16,
     MEDIA \o <<";">> \o CHARSET_EQ \o UTF_8}

\* MessageID and OperationID of a request, as sequences of characters; the
\* second OperationID holds a character outside ASCII.
IdPairs == {<<<<"m", "1">>, <<"o", "1">>>>, <<<<"m", "2">>, <<"ö", "2">>>>}
ReplyTos == {"http://schemas.xmlsoap.org/ws/2004/08/addressing/role/anonymous"}
Faults ==
    {[machine |-> "pc1", code |-> CODE_ACCESS_DENIED, text |-> "denied"],
     [machine |-> "pc2", code |-> CODE_RPC_CANCELLED, text |-> "cancelled"],
     [machine |-> "pc3", code |-> 5, text |-> "other"]}
Records == {"<Event>1</Event>", "<Event>2</Event>"}

\* The text of a request body: not well-formed XML, or a SOAP envelope given by
\* the elements of its header and body (ResourceURI may be Absent; only an
\* Events envelope carries event records).
MalformedText == [wf |-> FALSE]
EnvelopeTexts(acts, uris, maxFaults, records, maxEvents) ==
    UNION {
        {[wf |-> TRUE, Action |-> a, ResourceURI |-> u, MessageID |-> ids[1],
          OperationID |-> ids[2], ReplyTo |-> r, Faults |-> f, Events |-> e] :
            u \in uris, ids \in IdPairs, r \in ReplyTos,
            f \in SeqsUpTo(Faults, maxFaults),
            e \in IF a = ACTION_EVENTS THEN SeqsUpTo(records, maxEvents) ELSE {<<>>}}
        : a \in acts}

\* A body on the wire: a text in an encoding.
Payloads(texts) == [enc : {"utf8", "utf16"}, text : texts]
NoPayload == [enc |-> None]

\* The request line and headers of a request, as parse_request leaves them.
Requests(method) ==
    [method : {method}, path : Paths, Authorization : AuthHeaders,
     ContentLength : ContentLengths, ContentType : ContentTypes]
NoRequest == [method |-> None]

(***************************************************************************)
(* wsman (modelled from the specification's data model).                   *)
(***************************************************************************)
\* wsman.Envelope.load: the envelope of a parsed document; an absent
\* ResourceURI element gives resource_uri None.
Load(text) ==
    [action |-> text.Action,
     resource_uri |-> IF text.ResourceURI = Absent THEN None ELSE text.ResourceURI,
     id |-> text.MessageID,
     operation_id |-> text.OperationID,
     reply_to |-> text.ReplyTo,
     errors |-> text.Faults,
     events |-> text.Events]

\* wsman.AckEnvelope(relates_to, operation_id)
AckEnvelope(relates_to, operation_id) ==
    [kind |-> "AckEnvelope", relates_to |-> relates_to, operation_id |-> operation_id]

\* wsman.SubscriptionEnvelope(id, name, address, selectors, thumbprints)
SubscriptionEnvelope(id, name, address, selectors, thumbprints) ==
    [id |-> id, name |-> name, address |-> address, selectors |-> selectors,
     thumbprints |-> thumbprints]

\* wsman.EnumerateResponseEnvelope(subscription, operation_id, relates_to=...)
EnumerateResponseEnvelope(subscription, operation_id, relates_to) ==
    [kind |-> "EnumerateResponseEnvelope", subscription |-> subscription,
     operation_id |-> operation_id, relates_to |-> relates_to, to |-> None]

\* envelope.dump(): the XML text of a response envelope.
Dump(envelope) == [kind |-> "xml", envelope |-> envelope]

(***************************************************************************)
(* Values the handlers build.                                              *)
(***************************************************************************)
\* A str or bytes literal; str.encode('utf8') of a literal keeps its text.
Str(s) == [kind |-> "str", text |-> s]
Encode(response) == [kind |-> "bytes", of |-> response]
\* The bytes UTF-8 needs for a sequence of characters: two for "ö", one for
\* the ASCII characters.
RECURSIVE Utf8Len(_)
Utf8Len(s) ==
    IF s = <<>> THEN 0 ELSE (IF Head(s) = "ö" THEN 2 ELSE 1) + Utf8Len(Tail(s))
\* len() of a response string: the literals of the handlers are ASCII; a dumped
\* envelope is its markup (of unknown text, counted as one character) and the
\* ids it echoes.
CharLen(response) ==
    IF response.kind = "str" THEN Len(response.text)
    ELSE 1 + Len(response.envelope.relates_to) + Len(response.envelope.operation_id)
\* len() of the encoded response
ByteLen(bytes) ==
    IF bytes.of.kind = "str" THEN Len(bytes.of.text)
    ELSE 1 + Utf8Len(bytes.of.envelope.relates_to)
           + Utf8Len(bytes.of.envelope.operation_id)
NoResponse == [status |-> 0, headers |-> <<>>, body |-> Encode(Str(""))]
Reply(status, headers, body) == [status |-> status, headers |-> headers, body |-> body]
HeaderValues(r, name) == {r.headers[i][2] : i \in {j \in 1..Len(r.headers) : r.headers[j][1] = name}}

\* BaseHTTPRequestHandler.send_header: a Connection header sets close_connection.
\* parse_request leaves close_connection True (protocol_version is HTTP/1.0).
CloseConnection(r) ==
    LET at == {i \in 1..Len(r.headers) : r.headers[i][1] = "Connection"}
    IN  IF at = {} THEN TRUE
        ELSE LET last == CHOOSE i \in at : \A j \in at : j <= i
             IN  CASE r.headers[last][2] = "close" -> TRUE
                   [] r.headers[last][2] = "Keep-Alive" -> FALSE
                   [] OTHER -> TRUE

LogEntry(level, msg, arg) == [level |-> level, msg |-> msg, arg |-> arg]

(***************************************************************************)
(* State.                                                                  *)
(***************************************************************************)
VARIABLES
    pc,        \* per connection: "closed", "idle" (waiting for a request),
               \* "do_events" (inside the loop of WSManHandler.do_events),
               \* "replied" (the handler returned) or "raised" (it raised)
    tls,       \* per connection: isinstance(self.connection, ssl.SSLSocket)
    req,       \* per connection: request line and headers of the current request
    payload,   \* per connection: the bytes rfile.read returned, NoPayload if not read
    resp,      \* per connection: the reply written for the current request
    raised,    \* per connection: the exception that left the handler, or None
    trace,     \* per connection: the calls the handler made for the current request
    log,       \* per connection: what the handler logged to logger 'owinec'
    fwd,       \* per connection: the arguments of event_logger.info, in call order
    failed,    \* per connection: a write of the event log failed in this request
    sink,      \* event.log: the lines written by event_logger, all threads
    hist,      \* per connection, history variable (nothing in the program holds
               \* it): the conceptual state of the device's subscription before
               \* the current request, "Unsubscribed", "Subscribed" (an Enumerate
               \* was answered) or "Ended" (an End or EndSubscription was);
               \* Unobserved where the history is not recorded
    main       \* the main thread: its position in the start-up code and its locals

vars == <<pc, tls, req, payload, resp, raised, trace, log, fwd, failed, sink, hist, main>>

\* The history of a connection is not recorded.
Unobserved == "unobserved"
\* The main thread is inside httpd.serve_forever(); its locals are not looked at.
Serving == [pc |-> "serve_forever"]

Outcome(next, response, exception, calls, logged) ==
    [pc |-> next, resp |-> response, raised |-> exception, trace |-> calls, log |-> logged]

\* A reply has been written and the handler returns.
Replied(response, calls, logged) == Outcome("replied", response, None, calls, logged)

\* An exception leaves do_POST; nothing has been written.
Raise(exception, calls, logged) == Outcome("raised", NoResponse, exception, calls, logged)

(***************************************************************************)
(* SoapHandler.do_GET and do_PUT.                                          *)
(***************************************************************************)
do_GET_LengthChecked(h) ==
    IF ParseContentLength(h.ContentLength).v = 0
    THEN Replied(Reply(LENGTH_REQUIRED, <<>>, Encode(Str(BODY_411))),
                 <<"send_response", "end_headers", "wfile.write">>,
                 <<LogEntry("INFO", "GET from, invalid method", h.path)>>)
    ELSE Replied(Reply(METHOD_NOT_ALLOWED, <<>>, Encode(Str(BODY_405))),
                 <<"send_response", "end_headers", "wfile.write">>,
                 <<LogEntry("INFO", "GET from, invalid method", h.path)>>)
do_GET(h) ==
    Replied(Reply(METHOD_NOT_ALLOWED, <<>>, Encode(Str(BODY_405))),
            <<"send_response", "end_headers", "wfile.write">>,
            <<LogEntry("INFO", "GET from, invalid method", h.path)>>)

do_PUT(h) ==
    Replied(Reply(METHOD_NOT_ALLOWED, <<>>, Encode(Str(BODY_405))),
            <<"send_response", "end_headers", "wfile.write">>,
            <<LogEntry("INFO", "PUT from, invalid method", h.path)>>)

(***************************************************************************)
(* SoapHandler.do_POST, in the order of its statements.                    *)
(***************************************************************************)
\* line 76: isinstance(self.connection, ssl.SSLSocket); the certificate is not
\* checked and the Authorization header plays no part.
Authorized_ByHeader(is_ssl, h) == is_ssl \/ h.Authorization # Absent
Authorized(is_ssl, h) == is_ssl

\* lines 80-88: the connection is no SSLSocket
Unauthorized(h, logged) ==
    Replied(Reply(UNAUTHORIZED, <<<<"WWW-Authenticate", MUTUAL>>>>, Encode(Str(BODY_401))),
            <<"send_response", "send_header", "end_headers", "wfile.write">>,
            Append(logged,
                   LogEntry("WARNING", "401 Unauthorized - Unsupported authentication protocol",
                            IF h.Authorization = Absent THEN None ELSE h.Authorization)))

\* lines 96-104: content_length == 0.  (The Content-Length value is kept as the
\* number its text denotes.)
LengthRequired(h, logged) ==
    Replied(Reply(LENGTH_REQUIRED,
                  <<<<"WWW-Authenticate", MUTUAL>>, <<"Content-Length", 0>>,
                    <<"Connection", "close">>>>,
                  Encode(Str(BODY_411))),
            <<"send_response", "send_header", "send_header", "send_header",
              "end_headers", "wfile.write">>,
            Append(logged, LogEntry("WARNING", "411 Length Required", h.path)))

\* lines 106-110: the outcomes of payload.decode(codec).  Bytes decoded with the
\* codec they were not written in either raise UnicodeDecodeError or give a text
\* that is not the document sent.
DecodeOutcomes(bytes, codec) ==
    IF bytes.enc = codec THEN {[ok |-> TRUE, text |-> bytes.text]}
    ELSE {[ok |-> FALSE, text |-> MalformedText], [ok |-> TRUE, text |-> MalformedText]}

\* lines 116-120: the log entries for the envelope's errors
RECURSIVE ErrorLog_TipOn5004(_)
ErrorLog_TipOn5004(errors) ==
    IF errors = <<>> THEN <<>>
    ELSE LET error == Head(errors)
         IN  <<LogEntry("ERROR", "From machine (code): text", error)>>
             \o (IF error.code = CODE_ACCESS_DENIED
                 THEN <<LogEntry("ERROR", TIP, None)>> ELSE <<>>)
             \o ErrorLog_TipOn5004(Tail(errors))
RECURSIVE ErrorLog(_)
ErrorLog(errors) ==
    IF errors = <<>> THEN <<>>
    ELSE LET error == Head(errors)
         IN  <<LogEntry("ERROR", "From machine (code): text", error)>>
             \o (IF error.code = CODE_ACCESS_DENIED \/ error.code = CODE_RPC_CANCELLED
                 THEN <<LogEntry("ERROR", TIP, None)>> ELSE <<>>)
             \o ErrorLog(Tail(errors))

\* lines 122-134: the branch of the if/elif chain the envelope takes
Route_ActionOnly(envelope) ==
    CASE envelope.action = ACTION_END -> "end"
      [] envelope.action = ACTION_ENUMERATE -> "do_enumerate"
      [] envelope.action = ACTION_HEARTBEAT -> "do_heartbeat"
      [] envelope.action = ACTION_END_SUBSCRIPTION -> "end_subscription"
      [] envelope.action = ACTION_EVENTS -> "do_events"
      [] OTHER -> "not_implemented"
Route_Subscribed(envelope) ==
    IF envelope.action = ACTION_END /\ envelope.resource_uri = RESOURCE_URI_FULL_DUPLEX
    THEN "end"
    ELSE IF envelope.action = ACTION_ENUMERATE
            /\ envelope.resource_uri = RESOURCE_URI_SUBSCRIPTION
    THEN "do_enumerate"
    ELSE IF envelope.action = ACTION_HEARTBEAT /\ envelope.resource_uri = None
            /\ \E c \in Conns : hist[c] = "Subscribed"
    THEN "do_heartbeat"
    ELSE IF envelope.action = ACTION_END_SUBSCRIPTION /\ envelope.resource_uri = None
    THEN "end_subscription"
    ELSE IF envelope.action = ACTION_EVENTS /\ envelope.resource_uri = None
    THEN "do_events"
    ELSE "not_implemented"
Route_NoEnd(envelope) ==
    IF envelope.action = ACTION_ENUMERATE
       /\ envelope.resource_uri = RESOURCE_URI_SUBSCRIPTION
    THEN "do_enumerate"
    ELSE IF envelope.action = ACTION_HEARTBEAT /\ envelope.resource_uri = None
    THEN "do_heartbeat"
    ELSE IF envelope.action = ACTION_END_SUBSCRIPTION /\ envelope.resource_uri = None
    THEN "end_subscription"
    ELSE IF envelope.action = ACTION_EVENTS /\ envelope.resource_uri = None
    THEN "do_events"
    ELSE "not_implemented"
Route(envelope) ==
    IF envelope.action = ACTION_END /\ envelope.resource_uri = RESOURCE_URI_FULL_DUPLEX
    THEN "end"
    ELSE IF envelope.action = ACTION_ENUMERATE
            /\ envelope.resource_uri = RESOURCE_URI_SUBSCRIPTION
    THEN "do_enumerate"
    ELSE IF envelope.action = ACTION_HEARTBEAT /\ envelope.resource_uri = None
    THEN "do_heartbeat"
    ELSE IF envelope.action = ACTION_END_SUBSCRIPTION /\ envelope.resource_uri = None
    THEN "end_subscription"
    ELSE IF envelope.action = ACTION_EVENTS /\ envelope.resource_uri = None
    THEN "do_events"
    ELSE "not_implemented"

\* lines 134-141: no branch matched
NotImplemented(h, text, envelope, calls, logged) ==
    Replied(Reply(NOT_IMPLEMENTED, <<<<"WWW-Authenticate", MUTUAL>>>>, Encode(Str(BODY_501))),
            calls \o <<"send_response", "send_header", "end_headers", "wfile.write">>,
            logged \o <<LogEntry("INFO", "501 Not implemented",
                                 <<h.path, envelope.action, envelope.resource_uri>>),
                        LogEntry("WARNING", "Envelope not implemented", text)>>)

\* lines 143-152: the reply for a response string
Success_CharLength(h, envelope, response, calls, logged) ==
    Replied(Reply(OK,
                  <<<<"WWW-Authenticate", MUTUAL>>,
                    <<"Content-Type", SOAP_CONTENT_TYPE>>,
                    <<"Content-Length", CharLen(response)>>,
                    <<"Connection", "Keep-Alive">>>>,
                  Encode(response)),
            calls \o <<"send_response", "send_header", "send_header", "send_header",
                       "send_header", "end_headers", "wfile.write">>,
            logged \o <<LogEntry("INFO", "output data", response),
                        LogEntry("INFO", "path - action/resource_uri",
                                 <<h.path, envelope.action, envelope.resource_uri>>)>>)
Success(h, envelope, response, calls, logged) ==
    Replied(Reply(OK,
                  <<<<"WWW-Authenticate", MUTUAL>>,
                    <<"Content-Type", SOAP_CONTENT_TYPE>>,
                    <<"Content-Length", ByteLen(Encode(response))>>,
                    <<"Connection", "Keep-Alive">>>>,
                  Encode(response)),
            calls \o <<"send_response", "send_header", "send_header", "send_header",
                       "send_header", "end_headers", "wfile.write">>,
            logged \o <<LogEntry("INFO", "output data", response),
                        LogEntry("INFO", "path - action/resource_uri",
                                 <<h.path, envelope.action, envelope.resource_uri>>)>>)

(***************************************************************************)
(* WSManHandler.                                                           *)
(***************************************************************************)
\* lines 171-188
do_enumerate_Bookmarked(envelope) ==
    LET subscription ==
            SubscriptionEnvelope(
                "subscription2", "Test Subscription 2",
                "https://10.0.1.170:5986/owinec/subscriptions/s2",
                <<<<"Security", "*[System[(Level=1 or Level=2 or Level=3 or Level=4 or Level=0 or Level=5)]]">>,
                  <<"System", "*[System[(Level=1 or Level=2 or Level=3 or Level=4 or Level=0 or Level=5)]]">>>>,
                <<"663FC825E1657B6361DB624E549EF8EA839684A0">>) @@
            [bookmarks |-> TRUE,
             read_existing_events |-> TRUE,
             content_format |-> "RenderedText",
             max_time |-> 0,
             connection_retries |-> 60,
             connection_retries_wait |-> 10,
             heartbeat_sec |-> 60,
             max_envelope_size |-> 10 * 1024 * 1024]
        response == [EnumerateResponseEnvelope(subscription, envelope.operation_id, envelope.id)
                     EXCEPT !.to = envelope.reply_to]
    IN  Dump(response)
do_enumerate(envelope) ==
    LET subscription ==
            SubscriptionEnvelope(
                "subscription2", "Test Subscription 2",
                "https://10.0.1.170:5986/owinec/subscriptions/s2",
                <<<<"Security", "*[System[(Level=1 or Level=2 or Level=3 or Level=4 or Level=0 or Level=5)]]">>,
                  <<"System", "*[System[(Level=1 or Level=2 or Level=3 or Level=4 or Level=0 or Level=5)]]">>>>,
                <<"663FC825E1657B6361DB624E549EF8EA839684A0">>) @@
            [bookmarks |-> FALSE,
             read_existing_events |-> TRUE,
             content_format |-> "RenderedText",
             max_time |-> 0,
             connection_retries |-> 60,
             connection_retries_wait |-> 10,
             heartbeat_sec |-> 60,
             max_envelope_size |-> 10 * 1024 * 1024]
        response == [EnumerateResponseEnvelope(subscription, envelope.operation_id, envelope.id)
                     EXCEPT !.to = envelope.reply_to]
    IN  Dump(response)

\* lines 190-192
do_heartbeat_Swapped(envelope) == Dump(AckEnvelope(envelope.operation_id, envelope.id))
do_heartbeat(envelope) == Dump(AckEnvelope(envelope.id, envelope.operation_id))

\* lines 198-199: what do_events returns after its loop
do_events_return(envelope) == Dump(AckEnvelope(envelope.id, envelope.operation_id))

\* lines 122-152: dispatch of a loaded envelope.  The Events branch stops at the
\* head of the loop of do_events, which SinkAppend and EventsAck continue.
Dispatch(h, text, envelope, calls, logged) ==
    LET route == Route(envelope)
    IN  CASE route = "end" -> Success(h, envelope, Str(""), calls, logged)
          [] route = "end_subscription" -> Success(h, envelope, Str(""), calls, logged)
          [] route = "do_enumerate" ->
                Success(h, envelope, do_enumerate(envelope),
                        calls \o <<"do_enumerate">>, logged)
          [] route = "do_heartbeat" ->
                Success(h, envelope, do_heartbeat(envelope),
                        calls \o <<"do_heartbeat">>, logged)
          [] route = "do_events" ->
                Outcome("do_events", NoResponse, None, calls \o <<"do_events">>, logged)
          [] OTHER -> NotImplemented(h, text, envelope, calls, logged)

\* lines 73-141: do_POST up to the reply, the exception or the loop of do_events.
\* decoded is the outcome of payload.decode, looked at only once the body is read.
do_POST(is_ssl, h, decoded) ==
    LET logged == <<LogEntry("INFO", "POST from", h.path)>>
        content_length == ParseContentLength(h.ContentLength)
    IN  IF ~Authorized(is_ssl, h) THEN Unauthorized(h, logged)
        ELSE IF ~content_length.ok THEN Raise("ValueError", <<>>, logged)
        ELSE IF content_length.v = 0 THEN LengthRequired(h, logged)
        ELSE IF ~decoded.ok
        THEN Raise("UnicodeDecodeError", <<"rfile.read", "payload.decode">>, logged)
        ELSE IF ~decoded.text.wf
        THEN Raise("ParseError", <<"rfile.read", "payload.decode", "ET.fromstring">>,
                   Append(logged, LogEntry("INFO", "input data", decoded.text)))
        ELSE LET envelope == Load(decoded.text)
             IN  Dispatch(h, decoded.text, envelope,
                          <<"rfile.read", "payload.decode", "ET.fromstring", "Envelope.load">>,
                          <<logged[1],
                            LogEntry("INFO", "input data", decoded.text),
                            LogEntry("DEBUG", "Action, ResourceURI",
                                     <<envelope.action, envelope.resource_uri>>)>>
                          \o ErrorLog(envelope.errors))

\* do_POST reads the body: the gate and the length check have passed.
ReadsBody(is_ssl, h) ==
    /\ Authorized(is_ssl, h)
    /\ ParseContentLength(h.ContentLength).ok
    /\ ParseContentLength(h.ContentLength).v # 0

(***************************************************************************)
(* Actions.                                                                *)
(***************************************************************************)
\* The event records of handler threads that are inside do_events and have not
\* yet been passed to event_logger.
RECURSIVE PendingFrom(_)
PendingFrom(c) ==
    IF c > NumConns THEN 0
    ELSE (IF pc[c] = "do_events"
          THEN Len(payload[c].text.Events) - Len(fwd[c]) ELSE 0) + PendingFrom(c + 1)
Pending == PendingFrom(1)

\* A body is drawn only if the event log has room for its records.
Admitted(bytes) ==
    bytes.text.wf => Len(sink) + Pending + Len(bytes.text.Events) <= MaxSink

\* The history of a connection after the reply to a request with that envelope text.
Recorded(before, response, text) ==
    IF before = Unobserved \/ response.status # OK THEN before
    ELSE CASE Route(Load(text)) = "do_enumerate" -> "Subscribed"
           [] Route(Load(text)) \in {"end", "end_subscription"} -> "Ended"
           [] OTHER -> before

Begin(c, h, bytes, o) ==
    /\ req' = [req EXCEPT ![c] = h]
    /\ payload' = [payload EXCEPT ![c] = bytes]
    /\ resp' = [resp EXCEPT ![c] = o.resp]
    /\ raised' = [raised EXCEPT ![c] = o.raised]
    /\ trace' = [trace EXCEPT ![c] = o.trace]
    /\ log' = [log EXCEPT ![c] = o.log]
    /\ fwd' = [fwd EXCEPT ![c] = <<>>]
    /\ failed' = [failed EXCEPT ![c] = FALSE]
    /\ pc' = [pc EXCEPT ![c] = o.pc]
    /\ UNCHANGED <<tls, sink, hist, main>>

\* The handler's locals of the request just served are dropped.
Forget(c) ==
    /\ req' = [req EXCEPT ![c] = NoRequest]
    /\ payload' = [payload EXCEPT ![c] = NoPayload]
    /\ resp' = [resp EXCEPT ![c] = NoResponse]
    /\ raised' = [raised EXCEPT ![c] = None]
    /\ trace' = [trace EXCEPT ![c] = <<>>]
    /\ log' = [log EXCEPT ![c] = <<>>]
    /\ fwd' = [fwd EXCEPT ![c] = <<>>]
    /\ failed' = [failed EXCEPT ![c] = FALSE]
    /\ UNCHANGED <<sink, main>>

\* ThreadingHTTPServer accepts a connection and starts its handler thread.
Accept(c, kinds) ==
    /\ pc[c] = "closed"
    /\ \E is_ssl \in kinds : tls' = [tls EXCEPT ![c] = is_ssl]
    /\ pc' = [pc EXCEPT ![c] = "idle"]
    /\ hist' = [hist EXCEPT ![c] = IF @ = Unobserved THEN @ ELSE "Unsubscribed"]
    /\ UNCHANGED <<req, payload, resp, raised, trace, log, fwd, failed, sink, main>>

\* BaseHTTPRequestHandler.handle: close_connection is not set, the thread waits
\* for the next request of the connection.
KeepAlive(c) ==
    /\ pc[c] = "replied"
    /\ ~CloseConnection(resp[c])
    /\ pc' = [pc EXCEPT ![c] = "idle"]
    /\ Forget(c)
    /\ hist' = [hist EXCEPT ![c] = Recorded(@, resp[c], payload[c].text)]
    /\ UNCHANGED tls

\* The connection ends: close_connection is set after the reply, or an exception
\* left the handler (BaseHTTPRequestHandler.handle_one_request does not catch it;
\* socketserver reports it and shuts the connection down).  The listener goes on.
Close(c) ==
    /\ \/ pc[c] = "replied" /\ CloseConnection(resp[c])
       \/ pc[c] = "raised"
    /\ pc' = [pc EXCEPT ![c] = "closed"]
    /\ Forget(c)
    /\ UNCHANGED <<tls, hist>>

\* A GET request arrives and do_GET answers it.
Get(c, headers) ==
    /\ pc[c] = "idle"
    /\ \E h \in headers : Begin(c, h, NoPayload, do_GET(h))

\* A PUT request arrives and do_PUT answers it.
Put(c, headers) ==
    /\ pc[c] = "idle"
    /\ \E h \in headers : Begin(c, h, NoPayload, do_PUT(h))

\* A POST request arrives and do_POST runs to its reply, to the exception that
\* leaves it, or to the head of the loop of do_events.
Post(c, headers, bodies) ==
    /\ pc[c] = "idle"
    /\ \E h \in headers :
          IF ReadsBody(tls[c], h)
          THEN \E bytes \in bodies :
                  /\ Admitted(bytes)
                  /\ \E decoded \in DecodeOutcomes(bytes, Codec(ParseCharset(h.ContentType))) :
                        Begin(c, h, bytes, do_POST(tls[c], h, decoded))
          ELSE Begin(c, h, NoPayload, do_POST(tls[c], h, [ok |-> FALSE]))

\* line 195: the record the loop of do_events takes next, done being the calls
\* of event_logger.info already made.
NextEvent_Reversed(events, done) == events[Len(events) - Len(done)]
NextEvent(events, done) == events[Len(done) + 1]

\* logging.FileHandler with formatter '%(asctime)s %(levelname)s %(message)s':
\* the line event_logger.info writes for a message (the time is left out).  The
\* message is a bytes object, formatted by its repr.
LogLine(message) == <<"INFO", <<"b'", message.of.text, "'">>>>

\* lines 195-196: one turn of the loop of do_events.  A failed write is caught
\* by the logging handler (Handler.handleError) and the call returns normally.
SinkAppend_AtHead(c) ==
    /\ pc[c] = "do_events"
    /\ Len(fwd[c]) < Len(Load(payload[c].text).events)
    /\ LET e == NextEvent(Load(payload[c].text).events, fwd[c])
       IN  /\ fwd' = [fwd EXCEPT ![c] = Append(@, Encode(Str(e)))]
           /\ trace' = [trace EXCEPT ![c] = Append(@, "event_logger.info")]
           /\ \E written \in BOOLEAN :
                 /\ sink' = IF written
                            THEN <<LogLine(Encode(Str(e)))>> \o sink
                            ELSE sink
                 /\ failed' = [failed EXCEPT ![c] = @ \/ ~written]
    /\ UNCHANGED <<pc, tls, req, payload, resp, raised, log, hist, main>>
SinkAppend(c) ==
    /\ pc[c] = "do_events"
    /\ Len(fwd[c]) < Len(Load(payload[c].text).events)
    /\ LET e == NextEvent(Load(payload[c].text).events, fwd[c])
       IN  /\ fwd' = [fwd EXCEPT ![c] = Append(@, Encode(Str(e)))]
           /\ trace' = [trace EXCEPT ![c] = Append(@, "event_logger.info")]
           /\ \E written \in BOOLEAN :
                 /\ sink' = IF written THEN Append(sink, LogLine(Encode(Str(e)))) ELSE sink
                 /\ failed' = [failed EXCEPT ![c] = @ \/ ~written]
    /\ UNCHANGED <<pc, tls, req, payload, resp, raised, log, hist, main>>

\* lines 198-199 and 143-152: the loop is over, do_events returns its Ack and
\* do_POST replies.
EventsAck(c) ==
    /\ pc[c] = "do_events"
    /\ Len(fwd[c]) = Len(Load(payload[c].text).events)
    /\ LET envelope == Load(payload[c].text)
           o == Success(req[c], envelope, do_events_return(envelope),
                        trace[c] \o <<"AckEnvelope">>, log[c])
       IN  /\ resp' = [resp EXCEPT ![c] = o.resp]
           /\ trace' = [trace EXCEPT ![c] = o.trace]
           /\ log' = [log EXCEPT ![c] = o.log]
           /\ pc' = [pc EXCEPT ![c] = o.pc]
    /\ UNCHANGED <<tls, req, payload, raised, fwd, failed, sink, hist, main>>

\* No connection has been accepted yet.
InitHandlers ==
    /\ pc = [c \in Conns |-> "closed"]
    /\ tls = [c \in Conns |-> TRUE]
    /\ req = [c \in Conns |-> NoRequest]
    /\ payload = [c \in Conns |-> NoPayload]
    /\ resp = [c \in Conns |-> NoResponse]
    /\ raised = [c \in Conns |-> None]
    /\ trace = [c \in Conns |-> <<>>]
    /\ log = [c \in Conns |-> <<>>]
    /\ fwd = [c \in Conns |-> <<>>]
    /\ failed = [c \in Conns |-> FALSE]
    /\ sink = <<>>

Init ==
    /\ InitHandlers
    /\ hist = [c \in Conns |-> Unobserved]
    /\ main = Serving

(***************************************************************************)
(* Spec: one connection at a time, of either kind, every request drawn     *)
(* from the full product of the inputs.                                    *)
(***************************************************************************)
AllBodies ==
    Payloads({MalformedText}
             \cup EnvelopeTexts(Actions, (ResourceURIs \ {None}) \cup {Absent},
                                MaxFaults, Records, MaxEvents))

Next ==
    \/ Accept(1, BOOLEAN)
    \/ Get(1, Requests("GET"))
    \/ Put(1, Requests("PUT"))
    \/ Post(1, Requests("POST"), AllBodies)
    \/ SinkAppend(1)
    \/ EventsAck(1)
    \/ KeepAlive(1)
    \/ Close(1)

Spec == Init /\ [][Next]_vars

(***************************************************************************)
(* SpecConc: handler threads of TLS connections running at once, pushing   *)
(* heartbeats and event batches.                                           *)
(***************************************************************************)
PushHeaders ==
    [method : {"POST"}, path : {"/wsman/SubscriptionManager/WEC"},
     Authorization : {Absent}, ContentLength : {"52"},
     ContentType : {MEDIA \o <<";">> \o CHARSET_EQ \o UTF_16}]
PushBodies ==
    [enc : {"utf16"},
     text : {MalformedText}
            \cup EnvelopeTexts({ACTION_HEARTBEAT, ACTION_EVENTS}, {Absent}, 0,
                                {"<Event>1</Event>"}, MaxEvents)]

NextConc ==
    \E c \in Conns :
        \/ Accept(c, {TRUE})
        \/ Post(c, PushHeaders, PushBodies)
        \/ SinkAppend(c)
        \/ EventsAck(c)
        \/ KeepAlive(c)
        \/ Close(c)

SpecConc == Init /\ [][NextConc]_vars

(***************************************************************************)
(* Vocabulary of the properties.                                           *)
(***************************************************************************)
\* The handler of connection c has finished with its current request.
Finished(c) == pc[c] \in {"replied", "raised"}
\* The request of connection c is under way or finished.
Current(c) == req[c] # NoRequest

\* The calls of a trace that touch the request body or the envelope.
BodyCalls == {"rfile.read", "payload.decode", "ET.fromstring", "Envelope.load"}
HandlerCalls == {"do_enumerate", "do_heartbeat", "do_events"}
Calls(c, names) == SelectSeq(trace[c], LAMBDA call : call \in names)

\* The body of the request of c was read and decoded to the envelope text sent.
DecodedEnvelope(c) ==
    /\ payload[c] # NoPayload
    /\ payload[c].enc = Codec(ParseCharset(req[c].ContentType))
    /\ payload[c].text.wf

\* The dispatch table of the specification (section 4.3).
DispatchTable ==
    {<<ACTION_ENUMERATE, RESOURCE_URI_SUBSCRIPTION>>,
     <<ACTION_HEARTBEAT, None>>,
     <<ACTION_EVENTS, None>>,
     <<ACTION_END, RESOURCE_URI_FULL_DUPLEX>>,
     <<ACTION_END_SUBSCRIPTION, None>>}
TableKey(c) == <<Load(payload[c].text).action, Load(payload[c].text).resource_uri>>
TableHandler(key) ==
    CASE key = <<ACTION_ENUMERATE, RESOURCE_URI_SUBSCRIPTION>> -> <<"do_enumerate">>
      [] key = <<ACTION_HEARTBEAT, None>> -> <<"do_heartbeat">>
      [] key = <<ACTION_EVENTS, None>> -> <<"do_events">>
      [] OTHER -> <<>>

(***************************************************************************)
(* C1.  Every POST on a connection that is no TLS socket is answered 401   *)
(* with WWW-Authenticate set to the mutual-TLS profile URI, whatever its   *)
(* Authorization and Content-Length headers, and do_POST returns before    *)
(* the body is read, decoded, parsed or dispatched.                        *)
(***************************************************************************)
C1_NonTlsPostIs401 ==
    \A c \in Conns :
        (Current(c) /\ req[c].method = "POST" /\ ~tls[c]) =>
            /\ pc[c] = "replied"
            /\ resp[c].status = UNAUTHORIZED
            /\ HeaderValues(resp[c], "WWW-Authenticate") = {MUTUAL}
            /\ payload[c] = NoPayload
            /\ Calls(c, BodyCalls \cup HandlerCalls) = <<>>
            /\ fwd[c] = <<>>

C1_Witness ==
    \E c \in Conns :
        /\ pc[c] = "replied" /\ ~tls[c]
        /\ req[c].method = "POST"
        /\ req[c].Authorization # Absent
        /\ req[c].ContentLength = "0"
        /\ resp[c].status = UNAUTHORIZED

(***************************************************************************)
(* C2.  Every POST on a TLS connection whose Content-Length header is      *)
(* missing or 0 is answered 411 with Connection: close; no body is read or *)
(* parsed and dispatch is not reached.                                     *)
(***************************************************************************)
C2_NoLengthIs411 ==
    \A c \in Conns :
        (Current(c) /\ req[c].method = "POST" /\ tls[c]
         /\ req[c].ContentLength \in {Absent, "0"}) =>
            /\ pc[c] = "replied"
            /\ resp[c].status = LENGTH_REQUIRED
            /\ HeaderValues(resp[c], "Connection") = {"close"}
            /\ payload[c] = NoPayload
            /\ Calls(c, BodyCalls \cup HandlerCalls) = <<>>

C2_Witness ==
    \E c \in Conns :
        /\ pc[c] = "replied" /\ tls[c]
        /\ req[c].method = "POST"
        /\ req[c].ContentLength = Absent
        /\ resp[c].status = LENGTH_REQUIRED

(***************************************************************************)
(* C3.  Every decoded envelope whose (action, resourceURI) pair is not in  *)
(* the dispatch table is answered 501; the full envelope text is logged at *)
(* warning severity, none of do_enumerate, do_heartbeat and do_events is   *)
(* called and do_POST does not raise.                                      *)
(***************************************************************************)
C3_UnroutableIs501 ==
    \A c \in Conns :
        (Current(c) /\ req[c].method = "POST" /\ DecodedEnvelope(c)
         /\ TableKey(c) \notin DispatchTable) =>
            /\ pc[c] = "replied"
            /\ raised[c] = None
            /\ resp[c].status = NOT_IMPLEMENTED
            /\ \E i \in 1..Len(log[c]) :
                  log[c][i] = LogEntry("WARNING", "Envelope not implemented", payload[c].text)
            /\ Calls(c, HandlerCalls) = <<>>

C3_Witness ==
    \E c \in Conns :
        /\ pc[c] = "replied"
        /\ DecodedEnvelope(c)
        /\ TableKey(c) = <<ACTION_HEARTBEAT, RESOURCE_URI_SUBSCRIPTION>>
        /\ resp[c].status = NOT_IMPLEMENTED

(***************************************************************************)
(* C4.  For each of the five pairs of the dispatch table the router calls  *)
(* the handler of the table and no other, and the reply is 200; End and    *)
(* EndSubscription call no handler and reply 200 with an empty body.  No   *)
(* request has more than one handler called.                               *)
(***************************************************************************)
C4_TableRoutes ==
    \A c \in Conns :
        /\ Len(Calls(c, HandlerCalls)) <= 1
        /\ (Current(c) /\ req[c].method = "POST" /\ DecodedEnvelope(c)
            /\ TableKey(c) \in DispatchTable) =>
              /\ pc[c] \in {"replied", "do_events"}
              /\ Calls(c, HandlerCalls) = TableHandler(TableKey(c))
              /\ pc[c] = "do_events" => TableKey(c) = <<ACTION_EVENTS, None>>
              /\ pc[c] = "replied" =>
                    /\ resp[c].status = OK
                    /\ TableHandler(TableKey(c)) = <<>> => resp[c].body = Encode(Str(""))

C4_Witness ==
    \E c \in Conns :
        /\ pc[c] = "replied"
        /\ DecodedEnvelope(c)
        /\ TableKey(c) = <<ACTION_END, RESOURCE_URI_FULL_DUPLEX>>
        /\ resp[c].status = OK
        /\ resp[c].body = Encode(Str(""))

(***************************************************************************)
(* C5.  Every Heartbeat and every Events request answered 200 gets an      *)
(* acknowledgement whose RelatesTo is that request's MessageID and whose   *)
(* OperationID is that request's OperationID, also while other handler     *)
(* threads serve requests with other ids.                                  *)
(***************************************************************************)
C5_AckEchoesIds ==
    \A c \in Conns :
        (pc[c] = "replied" /\ resp[c].status = OK
         /\ TableKey(c) \in {<<ACTION_HEARTBEAT, None>>, <<ACTION_EVENTS, None>>}) =>
            /\ resp[c].body.of.kind = "xml"
            /\ resp[c].body.of.envelope.kind = "AckEnvelope"
            /\ resp[c].body.of.envelope.relates_to = payload[c].text.MessageID
            /\ resp[c].body.of.envelope.operation_id = payload[c].text.OperationID

C5_Witness ==
    \E c, d \in Conns :
        /\ c # d
        /\ pc[c] = "replied" /\ resp[c].status = OK
        /\ pc[d] = "replied" /\ resp[d].status = OK
        /\ TableKey(c) = <<ACTION_HEARTBEAT, None>>
        /\ TableKey(d) = <<ACTION_EVENTS, None>>
        /\ payload[c].text.MessageID # payload[d].text.MessageID
        /\ resp[c].body.of.envelope.relates_to = payload[c].text.MessageID
        /\ resp[d].body.of.envelope.relates_to = payload[d].text.MessageID

(***************************************************************************)
(* C6.  For an Events envelope of N records that the sink accepts,         *)
(* do_events passes exactly the N records to the sink, each once and in    *)
(* the order of the envelope, and builds a single Ack only after the N-th; *)
(* no Ack exists before or between the appends.                            *)
(***************************************************************************)
IsPrefix(s, t) == Len(s) <= Len(t) /\ \A i \in 1..Len(s) : s[i] = t[i]
Forwarded(events) == [i \in 1..Len(events) |-> Encode(Str(events[i]))]

C6_BatchThenAck ==
    \A c \in Conns :
        /\ (pc[c] = "do_events" /\ ~failed[c]) =>
              /\ IsPrefix(fwd[c], Forwarded(payload[c].text.Events))
              /\ Len(Calls(c, {"event_logger.info"})) = Len(fwd[c])
              /\ Calls(c, {"AckEnvelope"}) = <<>>
              /\ resp[c] = NoResponse
        /\ (pc[c] = "replied" /\ DecodedEnvelope(c)
            /\ TableKey(c) = <<ACTION_EVENTS, None>> /\ ~failed[c]) =>
              /\ fwd[c] = Forwarded(payload[c].text.Events)
              /\ Calls(c, {"event_logger.info", "AckEnvelope"})
                   = [i \in 1..(Len(payload[c].text.Events) + 1) |->
                        IF i <= Len(payload[c].text.Events)
                        THEN "event_logger.info" ELSE "AckEnvelope"]
              /\ resp[c].body.of.envelope.kind = "AckEnvelope"

C6_Witness ==
    \E c \in Conns :
        /\ pc[c] = "replied" /\ ~failed[c]
        /\ DecodedEnvelope(c)
        /\ TableKey(c) = <<ACTION_EVENTS, None>>
        /\ Len(payload[c].text.Events) = 2
        /\ payload[c].text.Events[1] # payload[c].text.Events[2]
        /\ fwd[c] = Forwarded(payload[c].text.Events)
        /\ resp[c].status = OK

(***************************************************************************)
(* C7.  Batch acknowledgement is all-or-nothing: if the sink fails on any  *)
(* record of an Events batch, the reply to that request is a failure (not  *)
(* 200) and carries no Ack envelope.                                       *)
(***************************************************************************)
C7_SinkFailureFailsRequest ==
    \A c \in Conns :
        (Finished(c) /\ DecodedEnvelope(c)
         /\ TableKey(c) = <<ACTION_EVENTS, None>> /\ failed[c]) =>
            /\ resp[c].status # OK
            /\ resp[c].body.of.kind # "xml"

(***************************************************************************)
(* C8.  Every POST on a TLS connection with a non-zero Content-Length      *)
(* whose body cannot be decoded or is not well-formed XML is answered with *)
(* a 4xx status.                                                           *)
(***************************************************************************)
C8_BadBodyIs4xx ==
    \A c \in Conns :
        (Finished(c) /\ req[c].method = "POST" /\ tls[c]
         /\ payload[c] # NoPayload /\ ~DecodedEnvelope(c)) =>
            /\ resp[c].status >= 400
            /\ resp[c].status <= 499

(***************************************************************************)
(* C9.  Every reply the server sends, whatever its status, carries the     *)
(* WWW-Authenticate header with the mutual-TLS profile URI.                *)
(***************************************************************************)
C9_EveryReplyAdvertisesMutualTls ==
    \A c \in Conns :
        pc[c] = "replied" => MUTUAL \in HeaderValues(resp[c], "WWW-Authenticate")

(***************************************************************************)
(* C10.  Every GET and every PUT request is answered 405 with the body     *)
(* 'Method Not Allowed', whatever the connection, the path, the headers    *)
(* and the requests before it; no body is read, no envelope parsed, no     *)
(* handler called and the sink is left as it was.                          *)
(***************************************************************************)
C10_GetPutAre405 ==
    [][\A c \in Conns :
          (pc[c] = "idle" /\ pc'[c] # "idle" /\ req'[c].method \in {"GET", "PUT"}) =>
              /\ pc'[c] = "replied"
              /\ resp'[c].status = METHOD_NOT_ALLOWED
              /\ resp'[c].body = Encode(Str(BODY_405))
              /\ payload'[c] = NoPayload
              /\ SelectSeq(trace'[c], LAMBDA call : call \in BodyCalls \cup HandlerCalls) = <<>>
              /\ fwd'[c] = <<>>
              /\ sink' = sink]_vars

C10_Witness ==
    \E c \in Conns :
        /\ pc[c] = "replied" /\ ~tls[c]
        /\ req[c].method = "PUT"
        /\ req[c].Authorization # Absent
        /\ req[c].ContentLength = Absent
        /\ resp[c].status = METHOD_NOT_ALLOWED
        /\ sink # <<>>

(***************************************************************************)
(* SpecFaults: one TLS connection whose requests carry every envelope with *)
(* fault lists of up to MaxFaultList entries.                              *)
(***************************************************************************)
MaxFaultList == 2

FaultHeaders ==
    [method : {"POST"}, path : {"/wsman/SubscriptionManager/WEC"},
     Authorization : {Absent}, ContentLength : {"52"},
     ContentType : {MEDIA \o <<";">> \o CHARSET_EQ \o UTF_16}]
FaultBodies ==
    [enc : {"utf16"},
     text : EnvelopeTexts(Actions, {Absent, RESOURCE_URI_SUBSCRIPTION, RESOURCE_URI_FULL_DUPLEX},
                          MaxFaultList, {"<Event>1</Event>"}, 1)]

NextFaults ==
    \/ Accept(1, {TRUE})
    \/ Post(1, FaultHeaders, FaultBodies)
    \/ SinkAppend(1)
    \/ EventsAck(1)
    \/ KeepAlive(1)
    \/ Close(1)

SpecFaults == Init /\ [][NextFaults]_vars

\* The envelope text with its fault entries taken out.
FaultFree(text) == [text EXCEPT !.Faults = <<>>]
\* What do_POST does with the fault-free text, on the same connection and headers.
FaultFreeOutcome(c) ==
    do_POST(tls[c], req[c], [ok |-> TRUE, text |-> FaultFree(payload[c].text)])
\* The reply that request ends with (an Events request replies after its loop).
FaultFreeReply(c) ==
    LET clean == FaultFreeOutcome(c)
        envelope == Load(FaultFree(payload[c].text))
    IN  IF clean.pc = "do_events"
        THEN Success(req[c], envelope, do_events_return(envelope), clean.trace, clean.log).resp
        ELSE clean.resp

IsFaultEntry(entry) == entry.level = "ERROR" /\ entry.msg = "From machine (code): text"
IsTipEntry(entry) == entry.level = "ERROR" /\ entry.msg = TIP
\* The messages logged by the dispatch and by the reply after it.
DispatchEntries ==
    {"501 Not implemented", "Envelope not implemented", "output data",
     "path - action/resource_uri"}

(***************************************************************************)
(* C11.  The fault entries of an envelope never change the outcome: the    *)
(* handler called and the reply (status, headers, body) are those of the   *)
(* same request with an empty fault list.  Each fault is logged once, in   *)
(* the order of the list, before anything the dispatch logs, and the       *)
(* remediation hint is logged right after a fault exactly when its code is *)
(* 5004 or 1818.                                                           *)
(***************************************************************************)
C11_FaultsOnlyLogged ==
    \A c \in Conns :
        (pc[c] \in {"do_events", "replied"} /\ DecodedEnvelope(c)) =>
            LET L == log[c]
                F == payload[c].text.Faults
                logged == SelectSeq(L, IsFaultEntry)
                about == {CODE_ACCESS_DENIED, CODE_RPC_CANCELLED}
            IN  /\ Calls(c, HandlerCalls) =
                       SelectSeq(FaultFreeOutcome(c).trace, LAMBDA call : call \in HandlerCalls)
                /\ pc[c] = "replied" => resp[c] = FaultFreeReply(c)
                /\ [i \in 1..Len(logged) |-> logged[i].arg] = F
                /\ \A i \in DOMAIN L :
                      IsTipEntry(L[i]) <=>
                          (i > 1 /\ IsFaultEntry(L[i - 1]) /\ L[i - 1].arg.code \in about)
                /\ \A i \in DOMAIN L :
                      (IsFaultEntry(L[i]) /\ L[i].arg.code \in about) =>
                          (i < Len(L) /\ IsTipEntry(L[i + 1]))
                /\ \A i, j \in DOMAIN L :
                      ((IsFaultEntry(L[i]) \/ IsTipEntry(L[i])) /\ L[j].msg \in DispatchEntries)
                          => i < j

C11_Witness ==
    \E c \in Conns :
        /\ pc[c] = "replied" /\ DecodedEnvelope(c)
        /\ Len(payload[c].text.Faults) = 2
        /\ payload[c].text.Faults[1].code = CODE_RPC_CANCELLED
        /\ payload[c].text.Faults[2].code = 5
        /\ resp[c].status = OK
        /\ Calls(c, HandlerCalls) = <<"do_heartbeat">>

(***************************************************************************)
(* SpecSubscribe: devices subscribing at once, each on its own connection, *)
(* TLS or plain, with Enumerate, Heartbeat and End envelopes.              *)
(***************************************************************************)
SubscribeHeaders ==
    [method : {"POST"}, path : {"/wsman/SubscriptionManager/WEC"},
     Authorization : {Absent}, ContentLength : {"52"},
     ContentType : {MEDIA \o <<";">> \o CHARSET_EQ \o UTF_16}]
SubscribeBodies ==
    [enc : {"utf16"},
     text : EnvelopeTexts({ACTION_ENUMERATE, ACTION_HEARTBEAT, ACTION_END},
                          {Absent, RESOURCE_URI_SUBSCRIPTION}, 0, {}, 0)]

NextSubscribe ==
    \E c \in Conns :
        \/ Accept(c, BOOLEAN)
        \/ Post(c, SubscribeHeaders, SubscribeBodies)
        \/ KeepAlive(c)
        \/ Close(c)

SpecSubscribe == Init /\ [][NextSubscribe]_vars

\* Connection c has replied to an Enumerate request for the Subscription URI.
EnumerateAnswered(c) ==
    /\ pc[c] = "replied" /\ tls[c]
    /\ DecodedEnvelope(c)
    /\ TableKey(c) = <<ACTION_ENUMERATE, RESOURCE_URI_SUBSCRIPTION>>

(***************************************************************************)
(* C12.  Every Enumerate request for the Subscription URI on a TLS         *)
(* connection is answered 200 with an EnumerateResponse whose RelatesTo is *)
(* the request's MessageID and whose OperationID is the request's, and     *)
(* whose subscription is always the same: id 'subscription2', content      *)
(* format 'RenderedText', heartbeat 60 s, batching latency 0, 60 retries   *)
(* 10 s apart, read-existing-events true, bookmarks false, envelopes of at *)
(* most 10 MiB.  Replies given on different connections at the same time   *)
(* carry the identical subscription.                                       *)
(***************************************************************************)
C12_EnumerateDescriptor ==
    \A c \in Conns :
        EnumerateAnswered(c) =>
            /\ resp[c].status = OK
            /\ resp[c].body.of.kind = "xml"
            /\ LET e == resp[c].body.of.envelope
                   s == e.subscription
               IN  /\ e.kind = "EnumerateResponseEnvelope"
                   /\ e.relates_to = payload[c].text.MessageID
                   /\ e.operation_id = payload[c].text.OperationID
                   /\ s.id = "subscription2"
                   /\ s.content_format = "RenderedText"
                   /\ s.heartbeat_sec = 60
                   /\ s.max_time = 0
                   /\ s.connection_retries = 60
                   /\ s.connection_retries_wait = 10
                   /\ s.read_existing_events = TRUE
                   /\ s.bookmarks = FALSE
                   /\ s.max_envelope_size = 10485760
                   /\ \A d \in Conns :
                         EnumerateAnswered(d) =>
                             resp[d].body.of.envelope.subscription = s

C12_Witness ==
    \E c, d \in Conns :
        /\ c # d
        /\ EnumerateAnswered(c) /\ EnumerateAnswered(d)
        /\ payload[c].text.MessageID # payload[d].text.MessageID
        /\ resp[c].status = OK /\ resp[d].status = OK

(***************************************************************************)
(* SpecBatch: every device delivers one batch of Events on its own TLS     *)
(* connection, the handler threads running at once.  The records of a      *)
(* batch name the device and their place in the batch.                     *)
(***************************************************************************)
DeviceRecord(c, k) == "<Event>" \o ToString(c) \o "." \o ToString(k) \o "</Event>"
BatchBodies(c) ==
    [enc : {"utf16"},
     text : {t \in EnvelopeTexts({ACTION_EVENTS}, {Absent}, 0,
                                 {DeviceRecord(c, k) : k \in 1..MaxEvents}, MaxEvents) :
                /\ t.MessageID = <<"m", "1">>
                /\ \A k \in DOMAIN t.Events : t.Events[k] = DeviceRecord(c, k)}]

NextBatch ==
    \E c \in Conns :
        \/ Accept(c, {TRUE})
        \/ Post(c, PushHeaders, BatchBodies(c))
        \/ SinkAppend(c)
        \/ EventsAck(c)

SpecBatch == Init /\ [][NextBatch]_vars

\* The lines of the event log that hold a record of device c, in file order.
IsLineOf(c, line) ==
    \E k \in 1..MaxEvents : line = LogLine(Encode(Str(DeviceRecord(c, k))))
SinkOf(c) == SelectSeq(sink, LAMBDA line : IsLineOf(c, line))

(***************************************************************************)
(* C13.  With several connections ingesting Events at once, the lines of   *)
(* the event log that belong to one connection are the records of its      *)
(* batch forwarded so far, in the order of the batch, each once, as long   *)
(* as no write of that connection failed; after the reply they are the     *)
(* whole batch.  Every line of the log belongs to some connection.         *)
(***************************************************************************)
C13_PerConnectionOrder ==
    /\ \A c \in Conns :
          /\ (pc[c] \in {"do_events", "replied"} /\ ~failed[c]) =>
                /\ SinkOf(c) = [i \in 1..Len(fwd[c]) |-> LogLine(fwd[c][i])]
                /\ IsPrefix(fwd[c], Forwarded(payload[c].text.Events))
                /\ pc[c] = "replied" => fwd[c] = Forwarded(payload[c].text.Events)
          /\ pc[c] \in {"closed", "idle"} => SinkOf(c) = <<>>
    /\ \A i \in DOMAIN sink : \E c \in Conns : IsLineOf(c, sink[i])

C13_Witness ==
    \E c, d \in Conns :
        /\ c # d
        /\ pc[c] = "replied" /\ pc[d] = "replied"
        /\ ~failed[c] /\ ~failed[d]
        /\ Len(sink) = 3
        /\ IsLineOf(c, sink[1]) /\ IsLineOf(d, sink[2]) /\ IsLineOf(c, sink[3])
        /\ resp[c].status = OK /\ resp[d].status = OK

(***************************************************************************)
(* Start-up (the module level and the __main__ block).                     *)
(***************************************************************************)
WSMAN_PORT_HTTP == 5985
WSMAN_PORT_HTTPS == 5986

\* argparse, --port with type=int: args.port is None when the option is absent.
NoPort == [given |-> FALSE]
Port(v) == [given |-> TRUE, v |-> v]
Ports == {NoPort, Port(0), Port(8443), Port(WSMAN_PORT_HTTP)}
\* argparse: --protocol has choices http and https, default https; --cert and
\* --key are an open file or None, modelled by whether the option is given.
Args == [protocol : {"http", "https"}, port : Ports, cert : BOOLEAN, key : BOOLEAN]

\* Python's `x or y` for an optional int: y when x is None or 0.
Or(port, default) == IF port.given /\ port.v # 0 THEN port.v ELSE default
\* line 236: `args.port or WSMAN_PORT_HTTP if args.protocol == 'http' else
\* WSMAN_PORT_HTTPS`; a conditional expression binds weaker than `or`, so this is
\* `(args.port or WSMAN_PORT_HTTP) if ... else WSMAN_PORT_HTTPS`.
BindPort(args) ==
    IF args.protocol = "http" THEN Or(args.port, WSMAN_PORT_HTTP) ELSE WSMAN_PORT_HTTPS

\* lines 240-247: what the main thread does with the listener it created.
Listener_PlainHttp(args) ==
    IF args.protocol = "https"
    THEN IF ~args.cert \/ ~args.key
         THEN [pc |-> "raised", wrapped |-> FALSE, exit |-> 0, raised |-> "FileNotFoundError"]
         ELSE [pc |-> "listening", wrapped |-> TRUE, exit |-> 0, raised |-> None]
    ELSE [pc |-> "listening", wrapped |-> FALSE, exit |-> 0, raised |-> None]
Listener(args) ==
    IF args.protocol = "https"
    THEN IF ~args.cert \/ ~args.key
         THEN [pc |-> "raised", wrapped |-> FALSE, exit |-> 0, raised |-> "FileNotFoundError"]
         ELSE [pc |-> "listening", wrapped |-> TRUE, exit |-> 0, raised |-> None]
    ELSE [pc |-> "exited", wrapped |-> FALSE, exit |-> 1, raised |-> None]

handlerVars == <<pc, tls, req, payload, resp, raised, trace, log, fwd, failed, sink, hist>>

\* lines 33-36: the module builds its SSLContext from two fixed files when it is
\* loaded; load_cert_chain raises if they cannot be read.
LoadCertChain ==
    /\ main.pc = "import"
    /\ \E readable \in BOOLEAN :
          main' = IF readable THEN [main EXCEPT !.pc = "main"]
                  ELSE [main EXCEPT !.pc = "raised", !.raised = "FileNotFoundError"]
    /\ UNCHANGED handlerVars

\* lines 233-238: the port is chosen and the server object created (bound, listening).
CreateServer ==
    /\ main.pc = "main"
    /\ main' = [main EXCEPT !.pc = "created", !.bind_port = BindPort(main.args)]
    /\ UNCHANGED handlerVars

\* lines 240-247: the listener is wrapped, or the process ends.
Secure ==
    /\ main.pc = "created"
    /\ LET o == Listener(main.args)
       IN  main' = [main EXCEPT !.pc = o.pc, !.wrapped = o.wrapped, !.exit = o.exit,
                                !.raised = o.raised]
    /\ UNCHANGED handlerVars

\* lines 249-251
ServeForever ==
    /\ main.pc = "listening"
    /\ main' = [main EXCEPT !.pc = "serve_forever"]
    /\ UNCHANGED handlerVars

\* The process has been started with some command line.
InitMain ==
    /\ InitHandlers
    /\ hist = [c \in Conns |-> Unobserved]
    /\ main \in {[pc |-> "import", args |-> a, bind_port |-> 0, wrapped |-> FALSE,
                  exit |-> 0, raised |-> None] : a \in Args}

(***************************************************************************)
(* SpecMain: the process from its start; connections are accepted from the *)
(* listener once the main thread is in serve_forever, and are of the       *)
(* listener's kind.                                                        *)
(***************************************************************************)
NextMain ==
    \/ LoadCertChain
    \/ CreateServer
    \/ Secure
    \/ ServeForever
    \/ \E c \in Conns :
          \/ main.pc = "serve_forever" /\ Accept(c, {main.wrapped})
          \/ Post(c, SubscribeHeaders, SubscribeBodies)
          \/ KeepAlive(c)
          \/ Close(c)

SpecMain == InitMain /\ [][NextMain]_vars

\* The server object exists: its socket is bound to main.bind_port.
Bound == main.pc \in {"created", "listening", "serve_forever", "exited"}

(***************************************************************************)
(* C14.  The port the server binds is the value of --port when the option  *)
(* is given, for either protocol; only when it is absent the default, 5985 *)
(* for http and 5986 for https.  (Nothing is required of --port 0, which   *)
(* asks the system for a free port.)                                       *)
(***************************************************************************)
C14_PortIsArgument ==
    (Bound /\ main.args.port # Port(0)) =>
        main.bind_port =
            IF main.args.port.given THEN main.args.port.v
            ELSE IF main.args.protocol = "http" THEN 5985 ELSE 5986

(***************************************************************************)
(* C15.  After a 401 or a 501 reply the connection stays open for a        *)
(* further request; of the error replies only the 411 reply makes the      *)
(* server close the connection.                                            *)
(***************************************************************************)
C15_ErrorRepliesKeepConnection ==
    \A c \in Conns :
        pc[c] = "replied" =>
            /\ resp[c].status \in {UNAUTHORIZED, NOT_IMPLEMENTED} => ~CloseConnection(resp[c])
            /\ (resp[c].status # OK /\ CloseConnection(resp[c])) =>
                  resp[c].status = LENGTH_REQUIRED

(***************************************************************************)
(* C16.  Every 200 reply carries Content-Type                              *)
(* 'application/soap+xml;charset=UTF-8', Connection 'Keep-Alive' and a     *)
(* Content-Length equal to the number of bytes of the body written, which  *)
(* is the response encoded as UTF-8; it is 0 for End and EndSubscription.  *)
(***************************************************************************)
C16_SuccessHeaders ==
    \A c \in Conns :
        (pc[c] = "replied" /\ resp[c].status = OK) =>
            /\ HeaderValues(resp[c], "Content-Type") = {SOAP_CONTENT_TYPE}
            /\ HeaderValues(resp[c], "Connection") = {"Keep-Alive"}
            /\ HeaderValues(resp[c], "Content-Length") = {ByteLen(resp[c].body)}
            /\ Load(payload[c].text).action \in {ACTION_END, ACTION_END_SUBSCRIPTION} =>
                  HeaderValues(resp[c], "Content-Length") = {0}

C16_Witness ==
    \E c \in Conns :
        /\ pc[c] = "replied" /\ resp[c].status = OK
        /\ resp[c].body.of.kind = "xml"
        /\ CharLen(resp[c].body.of) < ByteLen(resp[c].body)
        /\ HeaderValues(resp[c], "Content-Length") = {ByteLen(resp[c].body)}

(***************************************************************************)
(* SpecSession: devices going through the life of a subscription in any    *)
(* order, each on its own connection, with the history of each connection  *)
(* recorded in hist.                                                       *)
(***************************************************************************)
SessionBodies ==
    [enc : {"utf16"},
     text : {t \in EnvelopeTexts(Actions \ {ACTION_OTHER},
                                 {Absent, RESOURCE_URI_SUBSCRIPTION, RESOURCE_URI_FULL_DUPLEX},
                                 0, {"<Event>1</Event>"}, 1) :
                /\ t.MessageID = <<"m", "1">>
                /\ <<Load(t).action, Load(t).resource_uri>> \in DispatchTable}]

InitSession ==
    /\ InitHandlers
    /\ hist = [c \in Conns |-> "Unsubscribed"]
    /\ main = Serving

NextSession ==
    \E c \in Conns :
        \/ Accept(c, BOOLEAN)
        \/ Post(c, PushHeaders, SessionBodies)
        \/ SinkAppend(c)
        \/ EventsAck(c)
        \/ KeepAlive(c)
        \/ Close(c)

SpecSession == InitSession /\ [][NextSession]_vars

\* Connection c has replied to a request with that Action and no ResourceURI.
Answered(c, action) ==
    /\ pc[c] = "replied" /\ tls[c]
    /\ DecodedEnvelope(c)
    /\ TableKey(c) = <<action, None>>

(***************************************************************************)
(* C17.  There is no session state: two connections that have the same     *)
(* kind (TLS or not) and the same request get the same reply and the same  *)
(* handler, whatever was answered on each of them before.  A Heartbeat or  *)
(* an Events request on TLS is answered 200 with the Ack of its ids, and an *)
(* Enumerate for the Subscription URI with 200 and an EnumerateResponse,   *)
(* whether the device's subscription is Unsubscribed, Subscribed or Ended. *)
(***************************************************************************)
C17_NoSessionState ==
    /\ \A c, d \in Conns :
          (/\ pc[c] = "replied" /\ pc[d] = "replied"
           /\ tls[c] = tls[d] /\ req[c] = req[d] /\ payload[c] = payload[d]) =>
              /\ resp[c] = resp[d]
              /\ Calls(c, HandlerCalls) = Calls(d, HandlerCalls)
    /\ \A c \in Conns :
          /\ (Answered(c, ACTION_HEARTBEAT) \/ Answered(c, ACTION_EVENTS)) =>
                /\ resp[c].status = OK
                /\ resp[c].body =
                       Encode(Dump(AckEnvelope(payload[c].text.MessageID,
                                               payload[c].text.OperationID)))
          /\ EnumerateAnswered(c) =>
                /\ resp[c].status = OK
                /\ resp[c].body.of.kind = "xml"
                /\ resp[c].body.of.envelope.kind = "EnumerateResponseEnvelope"

C17_Witness ==
    \E c, d \in Conns :
        /\ Answered(c, ACTION_HEARTBEAT) /\ Answered(d, ACTION_HEARTBEAT)
        /\ hist[c] = "Unsubscribed" /\ hist[d] = "Ended"
        /\ req[c] = req[d] /\ payload[c] = payload[d]
        /\ resp[c] = resp[d] /\ resp[c].status = OK

(***************************************************************************)
(* SpecCharset: one TLS connection whose requests carry Content-Type       *)
(* headers with the charset parameter in several spellings and places, and *)
(* bodies in either encoding.                                              *)
(***************************************************************************)
CharsetTypes ==
    ContentTypes
    \cup {MEDIA,
          MEDIA \o <<";">> \o CHARSET_EQ \o UTF_16,
          MEDIA \o <<";", "a", "=", "1", ";">> \o CHARSET_EQ \o UTF_16,
          MEDIA \o <<";", " ">> \o CHARSET_EQ \o UTF_16 \o <<" ", ";", "a", "=", "1">>,
          MEDIA \o <<";", "a", "=", "1", ";">> \o CHARSET_EQ \o UTF_8}
CharsetHeaders ==
    [method : {"POST"}, path : {"/wsman/SubscriptionManager/WEC"},
     Authorization : {Absent}, ContentLength : {"52"}, ContentType : CharsetTypes]
CharsetBodies ==
    Payloads(EnvelopeTexts({ACTION_HEARTBEAT, ACTION_ENUMERATE},
                           {Absent, RESOURCE_URI_SUBSCRIPTION}, 0, {}, 0))

NextCharset ==
    \/ Accept(1, {TRUE})
    \/ Post(1, CharsetHeaders, CharsetBodies)
    \/ KeepAlive(1)
    \/ Close(1)

SpecCharset == Init /\ [][NextCharset]_vars

\* The codec the body of the request of c was decoded with, told by whether the
\* envelope sent came out of the decoding: it did if and only if the codec was
\* the encoding of the body.
Other(codec) == IF codec = "utf16" THEN "utf8" ELSE "utf16"
UsedCodec(c) ==
    IF "Envelope.load" \in Range(trace[c]) THEN payload[c].enc ELSE Other(payload[c].enc)
\* The body of the request of c has been read and passed to decode.
BodyDecoded(c) ==
    /\ pc[c] \in {"replied", "raised"}
    /\ payload[c] # NoPayload
    /\ payload[c].text.wf

\* Lower case of the letters that occur in the headers.
Lower(ch) ==
    CASE ch = "U" -> "u" [] ch = "T" -> "t" [] ch = "F" -> "f" [] OTHER -> ch
LowerAll(s) == [i \in 1..Len(s) |-> Lower(s[i])]
\* Some parameter of the header is charset=UTF-16, in any letter case.
NamesUtf16(header) ==
    /\ header # NoHeader
    /\ LET pieces == Split(header, ";")
       IN  \E i \in 2..Len(pieces) :
              LowerAll(Strip(pieces[i])) = LowerAll(CHARSET_EQ \o UTF_16)
\* The first parameter of the header is charset=UTF-16, spelled so.
FirstParameterIsUTF16(header) ==
    /\ header # NoHeader
    /\ Len(Split(header, ";")) >= 2
    /\ Strip(Split(header, ";")[2]) = CHARSET_EQ \o UTF_16

(***************************************************************************)
(* C18.  The request body is decoded as UTF-16 whenever the Content-Type   *)
(* header carries a charset parameter naming UTF-16, in any letter case    *)
(* and at any parameter position, and as UTF-8 in every other case.        *)
(***************************************************************************)
C18_Utf16InAnyCaseAndPlace ==
    \A c \in Conns :
        BodyDecoded(c) =>
            UsedCodec(c) = IF NamesUtf16(req[c].ContentType) THEN "utf16" ELSE "utf8"

(***************************************************************************)
(* C18, amended.  The request body is decoded as UTF-16 exactly when the   *)
(* first parameter of the Content-Type header (the text between the first  *)
(* and the second ';', blanks around it dropped) is 'charset=UTF-16' in    *)
(* this spelling; in every other case, among them 'charset=utf-16', a      *)
(* charset parameter at a later position and an absent header, it is       *)
(* decoded as UTF-8.                                                       *)
(***************************************************************************)
C18_Utf16OnlyFirstParameterExact ==
    \A c \in Conns :
        BodyDecoded(c) =>
            UsedCodec(c) =
                IF FirstParameterIsUTF16(req[c].ContentType) THEN "utf16" ELSE "utf8"

C18_Witness ==
    \E c \in Conns :
        /\ BodyDecoded(c)
        /\ req[c].ContentType = MEDIA \o <<";">> \o CHARSET_EQ \o utf_16
        /\ payload[c].enc = "utf8"
        /\ pc[c] = "replied" /\ resp[c].status = OK

(***************************************************************************)
(* C19.  The process never serves on a plain listener.  The main thread    *)
(* reaches serve_forever only with protocol https and both --cert and      *)
(* --key given, and only after the listening socket was wrapped in TLS;    *)
(* with http it never gets there and ends by exit(1); with https lacking   *)
(* --cert or --key it ends by raising FileNotFoundError.  No connection is *)
(* handled before serve_forever or after the main thread ended, and every  *)
(* connection handled is a TLS socket.                                     *)
(***************************************************************************)
C19_NeverPlainListener ==
    /\ main.pc = "serve_forever" =>
          /\ main.args.protocol = "https" /\ main.args.cert /\ main.args.key
          /\ main.wrapped
    /\ main.args.protocol = "http" =>
          /\ main.pc \notin {"listening", "serve_forever"}
          /\ ~main.wrapped
          /\ main.pc = "exited" => main.exit = 1
          /\ main.pc = "raised" => main.bind_port = 0
    /\ (main.args.protocol = "https" /\ (~main.args.cert \/ ~main.args.key)) =>
          /\ main.pc \notin {"listening", "serve_forever", "exited"}
          /\ ~main.wrapped
          /\ main.pc = "raised" => main.raised = "FileNotFoundError"
    /\ \A c \in Conns :
          pc[c] # "closed" => (main.pc = "serve_forever" /\ tls[c])

C19_Witness ==
    /\ main.pc = "serve_forever" /\ main.wrapped
    /\ main.args.protocol = "https" /\ main.args.cert /\ main.args.key
    /\ \E c \in Conns :
          /\ pc[c] = "replied" /\ tls[c]
          /\ resp[c].status = OK

(***************************************************************************)
(* C20.  In every reply that carries a Content-Length header (the 200 and  *)
(* the 411 replies) the declared length is the number of bytes of the body *)
(* the handler writes after the headers.                                   *)
(***************************************************************************)
C20_DeclaredLengthIsBodyLength ==
    \A c \in Conns :
        (pc[c] = "replied" /\ HeaderValues(resp[c], "Content-Length") # {}) =>
            HeaderValues(resp[c], "Content-Length") = {ByteLen(resp[c].body)}

====
